---- MODULE Spec2Model ----
(***************************************************************************)
(* A model of the Todo application of src/src/main.rs: the TodoApp store   *)
(* (accounts, tasks, the current user, the next task id), its operations,  *)
(* and the two JSON snapshot files tasks.json and users.json.              *)
(*                                                                         *)
(* The operations of TodoApp are modelled as its callers may invoke them:  *)
(* in any order and in any session state.  The interactive menu of main()  *)
(* is one such caller.  The process can end at any moment and be started   *)
(* again (action main), which rebuilds the store from the two files.       *)
(***************************************************************************)
EXTENDS Integers, Sequences, FiniteSets, TLC

\* ------------------------------------------------------------------ bounds
\* Largest task id the model assigns (next_task_id is a u32 in the source).
MaxId == 2

\* ------------------------------------------------------------------ inputs
Usernames == {"alice", "bob"}
Passwords == {"pw1", "pw2"}
\* (title, description) pairs typed by the user
TaskTexts == {<<"T1", "D1">>, <<"T2", "D2">>}
TaskIds == 1..(MaxId + 1)
\* Utc::now() readings, in clock ticks; a second is TicksPerSec ticks, so a
\* reading that is not a multiple of TicksPerSec has a sub-second part.
ClockReadings == {0, 1}
TicksPerSec == 2
\* what fs::write did: wrote the whole file, failed before touching it, or
\* failed after truncating it
WriteOutcomes == {"written", "refused", "torn"}

\* ------------------------------------------------------------------ state
VARIABLES
    tasks,          \* TodoApp.tasks : task id -> Task
    users,          \* TodoApp.users : username -> User
    current_user,   \* TodoApp.current_user : None or a username
    next_task_id,   \* TodoApp.next_task_id
    tasksFile,      \* the file tasks.json
    usersFile,      \* the file users.json
    pc,             \* "running", "crashed" (a save panicked), "aborted" (a load panicked)
    call,           \* the last operation invoked, with its arguments
    result,         \* what it returned: "Ok", the Err string, or "panic"
    ret,            \* the payload of its Ok(..), as a sequence (<<>> for the unit value)
    io,             \* what its fs::write did, "none" if it wrote nothing
    issued          \* history: the highest id a successful add_task has assigned, 0 if none

vars == <<tasks, users, current_user, next_task_id, tasksFile, usersFile,
          pc, call, result, ret, io, issued>>

None == "None"
EmptyMap == <<>>

Put(f, k, v) == [x \in (DOMAIN f) \cup {k} |-> IF x = k THEN v ELSE f[x]]
Remove(f, k) == [x \in (DOMAIN f) \ {k} |-> f[x]]

Task(id, title, description, completed, created_at, user_id) ==
    [id |-> id, title |-> title, description |-> description,
     completed |-> completed, created_at |-> created_at, user_id |-> user_id]

User(username, password) == [username |-> username, password |-> password]

\* ------------------------------------------------------------- the files
AbsentFile == [present |-> FALSE, valid |-> FALSE, body |-> EmptyMap]
TornFile == [present |-> TRUE, valid |-> FALSE, body |-> EmptyMap]
JsonFile(json) == [present |-> TRUE, valid |-> TRUE, body |-> json]

\* fs::write(path, json): the file after the call, by outcome
fs_write(old, json, outcome) ==
    CASE outcome = "written" -> JsonFile(json)
      [] outcome = "refused" -> old
      [] outcome = "torn" -> TornFile

\* JSON object keys are strings: a u32 key is written in decimal and parsed back
DecimalDigits == <<"1", "2", "3", "4", "5", "6", "7", "8", "9">>
DecStr(n) == DecimalDigits[n]
ParseU32(s) == CHOOSE n \in DOMAIN DecimalDigits : DecimalDigits[n] = s

\* chrono::serde::ts_seconds: a DateTime is written as whole epoch seconds
ts_seconds_serialize(t) == t \div TicksPerSec
ts_seconds_deserialize(s) == s * TicksPerSec

SerializeTask(t) ==
    [id |-> t.id, title |-> t.title, description |-> t.description,
     completed |-> t.completed, created_at |-> ts_seconds_serialize(t.created_at),
     user_id |-> t.user_id]
\* Deserialize with the user_id field skipped, so that it takes its default
DeserializeTask_owner_skipped(j) ==
    Task(j.id, j.title, j.description, j.completed,
         ts_seconds_deserialize(j.created_at), "")

DeserializeTask(j) ==
    Task(j.id, j.title, j.description, j.completed,
         ts_seconds_deserialize(j.created_at), j.user_id)

\* serde_json::to_string(&self.tasks) and serde_json::from_str
SerializeTasks(m) ==
    [k \in {DecStr(i) : i \in DOMAIN m} |-> SerializeTask(m[ParseU32(k)])]
DeserializeTasks(json) ==
    [i \in {ParseU32(k) : k \in DOMAIN json} |-> DeserializeTask(json[DecStr(i)])]

\* serde_json::to_string(&self.users) and serde_json::from_str
SerializeUsers(m) ==
    [k \in DOMAIN m |-> [username |-> m[k].username, password |-> m[k].password]]
DeserializeUsers(json) ==
    [k \in DOMAIN json |-> User(json[k].username, json[k].password)]

\* save_tasks that leaves the file as it was
save_tasks_unwritten(self_tasks, file, outcome) == file

save_tasks(self_tasks, file, outcome) ==
    fs_write(file, SerializeTasks(self_tasks), outcome)

save_users(self_users, file, outcome) ==
    fs_write(file, SerializeUsers(self_users), outcome)

\* the io::Result of a save dropped instead of unwrapped
unwrap_ignored(outcome) == [pc |-> "running", result |-> "Ok"]

\* .unwrap() on the io::Result of a save: Ok goes on, Err panics
unwrap(outcome) ==
    IF outcome = "written"
    THEN [pc |-> "running", result |-> "Ok"]
    ELSE [pc |-> "crashed", result |-> "panic"]

MaxOf(S) == CHOOSE m \in S : \A x \in S : x <= m

\* load_tasks that does not recompute the counter from the loaded keys
load_tasks_keep_counter(file, self_tasks, self_next) ==
    IF ~file.present
    THEN [ok |-> TRUE, tasks |-> self_tasks, next_task_id |-> self_next]
    ELSE IF ~file.valid
    THEN [ok |-> FALSE, tasks |-> self_tasks, next_task_id |-> self_next]
    ELSE [ok |-> TRUE, tasks |-> DeserializeTasks(file.body),
          next_task_id |-> self_next]

load_tasks(file, self_tasks, self_next) ==
    IF ~file.present
    THEN [ok |-> TRUE, tasks |-> self_tasks, next_task_id |-> self_next]
    ELSE IF ~file.valid
    THEN [ok |-> FALSE, tasks |-> self_tasks, next_task_id |-> self_next]
    ELSE LET loaded == DeserializeTasks(file.body) IN
         [ok |-> TRUE, tasks |-> loaded,
          next_task_id |-> IF DOMAIN loaded = {} THEN 1
                           ELSE MaxOf(DOMAIN loaded) + 1]

\* load_users that takes a file it cannot parse for an empty account map
load_users_default_on_error(file, self_users) ==
    IF ~file.present
    THEN [ok |-> TRUE, users |-> self_users]
    ELSE IF ~file.valid
    THEN [ok |-> TRUE, users |-> self_users]
    ELSE [ok |-> TRUE, users |-> DeserializeUsers(file.body)]

load_users(file, self_users) ==
    IF ~file.present
    THEN [ok |-> TRUE, users |-> self_users]
    ELSE IF ~file.valid
    THEN [ok |-> FALSE, users |-> self_users]
    ELSE [ok |-> TRUE, users |-> DeserializeUsers(file.body)]

\* ------------------------------------------------------------------ Init
\* TodoApp::new() followed by the two loads of the first run (no files yet)
Init ==
    /\ tasks = EmptyMap
    /\ users = EmptyMap
    /\ current_user = None
    /\ next_task_id = 1
    /\ tasksFile = AbsentFile
    /\ usersFile = AbsentFile
    /\ pc = "running"
    /\ call = [name |-> "main"]
    /\ result = "Ok"
    /\ ret = <<>>
    /\ io = "none"
    /\ issued = 0

\* ------------------------------------------------------------ operations
\* register that inserts without looking for the username first
register_overwrite(username, password) ==
    /\ pc = "running"
    /\ call' = [name |-> "register", username |-> username, password |-> password]
    /\ ret' = <<>>
    /\ \E outcome \in WriteOutcomes :
          /\ users' = Put(users, username, User(username, password))
          /\ usersFile' = save_users(users', usersFile, outcome)
          /\ io' = outcome
          /\ pc' = unwrap(outcome).pc
          /\ result' = unwrap(outcome).result
    /\ UNCHANGED <<tasks, current_user, next_task_id, tasksFile, issued>>

\* register that also signs the new account in
register_and_login(username, password) ==
    /\ pc = "running"
    /\ call' = [name |-> "register", username |-> username, password |-> password]
    /\ ret' = <<>>
    /\ IF username \in DOMAIN users
       THEN /\ result' = "Username already exists"
            /\ io' = "none"
            /\ UNCHANGED <<users, usersFile, pc, current_user>>
       ELSE \E outcome \in WriteOutcomes :
            /\ users' = Put(users, username, User(username, password))
            /\ current_user' = username
            /\ usersFile' = save_users(users', usersFile, outcome)
            /\ io' = outcome
            /\ pc' = unwrap(outcome).pc
            /\ result' = unwrap(outcome).result
    /\ UNCHANGED <<tasks, next_task_id, tasksFile, issued>>

register(username, password) ==
    /\ pc = "running"
    /\ call' = [name |-> "register", username |-> username, password |-> password]
    /\ ret' = <<>>
    /\ IF username \in DOMAIN users
       THEN /\ result' = "Username already exists"
            /\ io' = "none"
            /\ UNCHANGED <<users, usersFile, pc>>
       ELSE \E outcome \in WriteOutcomes :
            /\ users' = Put(users, username, User(username, password))
            /\ usersFile' = save_users(users', usersFile, outcome)
            /\ io' = outcome
            /\ pc' = unwrap(outcome).pc
            /\ result' = unwrap(outcome).result
    /\ UNCHANGED <<tasks, current_user, next_task_id, tasksFile, issued>>

\* login that accepts any password of a registered username
login_any_password(username, password) ==
    /\ pc = "running"
    /\ call' = [name |-> "login", username |-> username, password |-> password]
    /\ ret' = <<>>
    /\ io' = "none"
    /\ IF username \in DOMAIN users
       THEN /\ current_user' = username
            /\ result' = "Ok"
       ELSE /\ result' = "Invalid username or password"
            /\ UNCHANGED current_user
    /\ UNCHANGED <<tasks, users, next_task_id, tasksFile, usersFile, pc, issued>>

\* login whose fallback arm is taken for a wrong password only, so that a
\* username that is not registered is signed in
login_unknown_user(username, password) ==
    /\ pc = "running"
    /\ call' = [name |-> "login", username |-> username, password |-> password]
    /\ ret' = <<>>
    /\ io' = "none"
    /\ IF username \in DOMAIN users /\ users[username].password # password
       THEN /\ result' = "Invalid username or password"
            /\ UNCHANGED current_user
       ELSE /\ current_user' = username
            /\ result' = "Ok"
    /\ UNCHANGED <<tasks, users, next_task_id, tasksFile, usersFile, pc, issued>>

login(username, password) ==
    /\ pc = "running"
    /\ call' = [name |-> "login", username |-> username, password |-> password]
    /\ ret' = <<>>
    /\ io' = "none"
    /\ IF username \in DOMAIN users /\ users[username].password = password
       THEN /\ current_user' = username
            /\ result' = "Ok"
       ELSE /\ result' = "Invalid username or password"
            /\ UNCHANGED current_user
    /\ UNCHANGED <<tasks, users, next_task_id, tasksFile, usersFile, pc, issued>>

\* the logout branch without the assignment to current_user
logout_keeps_session ==
    /\ pc = "running"
    /\ call' = [name |-> "logout"]
    /\ ret' = <<>>
    /\ io' = "none"
    /\ result' = "Ok"
    /\ UNCHANGED <<tasks, users, current_user, next_task_id, tasksFile, usersFile,
                   pc, issued>>

\* main(), menu choice "6": app.current_user = None
logout ==
    /\ pc = "running"
    /\ call' = [name |-> "logout"]
    /\ ret' = <<>>
    /\ io' = "none"
    /\ result' = "Ok"
    /\ current_user' = None
    /\ UNCHANGED <<tasks, users, next_task_id, tasksFile, usersFile, pc, issued>>

\* add_task that does not look at the session and files the task under
\* whatever the slot holds
add_task_anonymous(title, description, now) ==
    /\ pc = "running"
    /\ call' = [name |-> "add_task", title |-> title, description |-> description]
    /\ ret' = <<>>
    /\ \E outcome \in WriteOutcomes :
          /\ next_task_id <= MaxId
          /\ tasks' = Put(tasks, next_task_id,
                          Task(next_task_id, title, description, FALSE, now,
                               current_user))
          /\ next_task_id' = next_task_id + 1
          /\ tasksFile' = save_tasks(tasks', tasksFile, outcome)
          /\ io' = outcome
          /\ pc' = unwrap(outcome).pc
          /\ result' = unwrap(outcome).result
          /\ issued' = IF result' = "Ok" THEN next_task_id ELSE issued
    /\ UNCHANGED <<users, current_user, usersFile>>

\* add_task that increments the counter before it inserts
add_task_id_after_increment(title, description, now) ==
    /\ pc = "running"
    /\ call' = [name |-> "add_task", title |-> title, description |-> description]
    /\ ret' = <<>>
    /\ IF current_user = None
       THEN /\ result' = "Not logged in"
            /\ io' = "none"
            /\ UNCHANGED <<tasks, next_task_id, tasksFile, pc, issued>>
       ELSE \E outcome \in WriteOutcomes :
            /\ next_task_id <= MaxId
            /\ next_task_id' = next_task_id + 1
            /\ tasks' = Put(tasks, next_task_id',
                            Task(next_task_id, title, description, FALSE, now,
                                 current_user))
            /\ tasksFile' = save_tasks(tasks', tasksFile, outcome)
            /\ io' = outcome
            /\ pc' = unwrap(outcome).pc
            /\ result' = unwrap(outcome).result
            /\ issued' = IF result' = "Ok" THEN next_task_id ELSE issued
    /\ UNCHANGED <<users, current_user, usersFile>>

\* add_task that leaves the counter where it was
add_task_no_increment(title, description, now) ==
    /\ pc = "running"
    /\ call' = [name |-> "add_task", title |-> title, description |-> description]
    /\ ret' = <<>>
    /\ IF current_user = None
       THEN /\ result' = "Not logged in"
            /\ io' = "none"
            /\ UNCHANGED <<tasks, next_task_id, tasksFile, pc, issued>>
       ELSE \E outcome \in WriteOutcomes :
            /\ next_task_id <= MaxId
            /\ tasks' = Put(tasks, next_task_id,
                            Task(next_task_id, title, description, FALSE, now,
                                 current_user))
            /\ next_task_id' = next_task_id
            /\ tasksFile' = save_tasks(tasks', tasksFile, outcome)
            /\ io' = outcome
            /\ pc' = unwrap(outcome).pc
            /\ result' = unwrap(outcome).result
            /\ issued' = IF result' = "Ok" THEN next_task_id ELSE issued
    /\ UNCHANGED <<users, current_user, usersFile>>

\* The guard next_task_id <= MaxId keeps the u32 counter within the model.
add_task(title, description, now) ==
    /\ pc = "running"
    /\ call' = [name |-> "add_task", title |-> title, description |-> description]
    /\ ret' = <<>>
    /\ IF current_user = None
       THEN /\ result' = "Not logged in"
            /\ io' = "none"
            /\ UNCHANGED <<tasks, next_task_id, tasksFile, pc, issued>>
       ELSE \E outcome \in WriteOutcomes :
            /\ next_task_id <= MaxId
            /\ tasks' = Put(tasks, next_task_id,
                            Task(next_task_id, title, description, FALSE, now,
                                 current_user))
            /\ next_task_id' = next_task_id + 1
            /\ tasksFile' = save_tasks(tasks', tasksFile, outcome)
            /\ io' = outcome
            /\ pc' = unwrap(outcome).pc
            /\ result' = unwrap(outcome).result
            /\ issued' = IF result' = "Ok" THEN next_task_id ELSE issued
    /\ UNCHANGED <<users, current_user, usersFile>>

\* complete_task without the comparison of task.user_id with the session
complete_task_any_owner(task_id) ==
    /\ pc = "running"
    /\ call' = [name |-> "complete_task", task_id |-> task_id]
    /\ ret' = <<>>
    /\ IF current_user = None
       THEN /\ result' = "Not logged in"
            /\ io' = "none"
            /\ UNCHANGED <<tasks, tasksFile, pc>>
       ELSE IF task_id \notin DOMAIN tasks
       THEN /\ result' = "Task not found"
            /\ io' = "none"
            /\ UNCHANGED <<tasks, tasksFile, pc>>
       ELSE \E outcome \in WriteOutcomes :
            /\ tasks' = [tasks EXCEPT ![task_id].completed = TRUE]
            /\ tasksFile' = save_tasks(tasks', tasksFile, outcome)
            /\ io' = outcome
            /\ pc' = unwrap(outcome).pc
            /\ result' = unwrap(outcome).result
    /\ UNCHANGED <<users, current_user, next_task_id, usersFile, issued>>

\* complete_task that flips the flag instead of setting it
complete_task_toggles(task_id) ==
    /\ pc = "running"
    /\ call' = [name |-> "complete_task", task_id |-> task_id]
    /\ ret' = <<>>
    /\ IF current_user = None
       THEN /\ result' = "Not logged in"
            /\ io' = "none"
            /\ UNCHANGED <<tasks, tasksFile, pc>>
       ELSE IF task_id \notin DOMAIN tasks
       THEN /\ result' = "Task not found"
            /\ io' = "none"
            /\ UNCHANGED <<tasks, tasksFile, pc>>
       ELSE IF tasks[task_id].user_id # current_user
       THEN /\ result' = "Not authorized to modify this task"
            /\ io' = "none"
            /\ UNCHANGED <<tasks, tasksFile, pc>>
       ELSE \E outcome \in WriteOutcomes :
            /\ tasks' = [tasks EXCEPT ![task_id].completed = ~@]
            /\ tasksFile' = save_tasks(tasks', tasksFile, outcome)
            /\ io' = outcome
            /\ pc' = unwrap(outcome).pc
            /\ result' = unwrap(outcome).result
    /\ UNCHANGED <<users, current_user, next_task_id, usersFile, issued>>

complete_task(task_id) ==
    /\ pc = "running"
    /\ call' = [name |-> "complete_task", task_id |-> task_id]
    /\ ret' = <<>>
    /\ IF current_user = None
       THEN /\ result' = "Not logged in"
            /\ io' = "none"
            /\ UNCHANGED <<tasks, tasksFile, pc>>
       ELSE IF task_id \notin DOMAIN tasks
       THEN /\ result' = "Task not found"
            /\ io' = "none"
            /\ UNCHANGED <<tasks, tasksFile, pc>>
       ELSE IF tasks[task_id].user_id # current_user
       THEN /\ result' = "Not authorized to modify this task"
            /\ io' = "none"
            /\ UNCHANGED <<tasks, tasksFile, pc>>
       ELSE \E outcome \in WriteOutcomes :
            /\ tasks' = [tasks EXCEPT ![task_id].completed = TRUE]
            /\ tasksFile' = save_tasks(tasks', tasksFile, outcome)
            /\ io' = outcome
            /\ pc' = unwrap(outcome).pc
            /\ result' = unwrap(outcome).result
    /\ UNCHANGED <<users, current_user, next_task_id, usersFile, issued>>

\* edit_task that stores a rebuilt task, with completed back to false
edit_task_rebuilds_task(task_id, title, description) ==
    /\ pc = "running"
    /\ call' = [name |-> "edit_task", task_id |-> task_id, title |-> title,
                description |-> description]
    /\ ret' = <<>>
    /\ IF current_user = None
       THEN /\ result' = "Not logged in"
            /\ io' = "none"
            /\ UNCHANGED <<tasks, tasksFile, pc>>
       ELSE IF task_id \notin DOMAIN tasks
       THEN /\ result' = "Task not found"
            /\ io' = "none"
            /\ UNCHANGED <<tasks, tasksFile, pc>>
       ELSE IF tasks[task_id].user_id # current_user
       THEN /\ result' = "Not authorized to modify this task"
            /\ io' = "none"
            /\ UNCHANGED <<tasks, tasksFile, pc>>
       ELSE \E outcome \in WriteOutcomes :
            /\ tasks' = [tasks EXCEPT ![task_id] =
                            Task(task_id, title, description, FALSE,
                                 tasks[task_id].created_at, current_user)]
            /\ tasksFile' = save_tasks(tasks', tasksFile, outcome)
            /\ io' = outcome
            /\ pc' = unwrap(outcome).pc
            /\ result' = unwrap(outcome).result
    /\ UNCHANGED <<users, current_user, next_task_id, usersFile, issued>>

edit_task(task_id, title, description) ==
    /\ pc = "running"
    /\ call' = [name |-> "edit_task", task_id |-> task_id, title |-> title,
                description |-> description]
    /\ ret' = <<>>
    /\ IF current_user = None
       THEN /\ result' = "Not logged in"
            /\ io' = "none"
            /\ UNCHANGED <<tasks, tasksFile, pc>>
       ELSE IF task_id \notin DOMAIN tasks
       THEN /\ result' = "Task not found"
            /\ io' = "none"
            /\ UNCHANGED <<tasks, tasksFile, pc>>
       ELSE IF tasks[task_id].user_id # current_user
       THEN /\ result' = "Not authorized to modify this task"
            /\ io' = "none"
            /\ UNCHANGED <<tasks, tasksFile, pc>>
       ELSE \E outcome \in WriteOutcomes :
            /\ tasks' = [tasks EXCEPT ![task_id].title = title,
                                      ![task_id].description = description]
            /\ tasksFile' = save_tasks(tasks', tasksFile, outcome)
            /\ io' = outcome
            /\ pc' = unwrap(outcome).pc
            /\ result' = unwrap(outcome).result
    /\ UNCHANGED <<users, current_user, next_task_id, usersFile, issued>>

\* delete_task that looks the id up among the caller's own tasks only, so
\* that a task of another account looks absent
delete_task_own_only(task_id) ==
    /\ pc = "running"
    /\ call' = [name |-> "delete_task", task_id |-> task_id]
    /\ ret' = <<>>
    /\ IF current_user = None
       THEN /\ result' = "Not logged in"
            /\ io' = "none"
            /\ UNCHANGED <<tasks, tasksFile, pc>>
       ELSE IF task_id \notin DOMAIN tasks \/ tasks[task_id].user_id # current_user
       THEN /\ result' = "Task not found"
            /\ io' = "none"
            /\ UNCHANGED <<tasks, tasksFile, pc>>
       ELSE \E outcome \in WriteOutcomes :
            /\ tasks' = Remove(tasks, task_id)
            /\ tasksFile' = save_tasks(tasks', tasksFile, outcome)
            /\ io' = outcome
            /\ pc' = unwrap(outcome).pc
            /\ result' = unwrap(outcome).result
    /\ UNCHANGED <<users, current_user, next_task_id, usersFile, issued>>

delete_task(task_id) ==
    /\ pc = "running"
    /\ call' = [name |-> "delete_task", task_id |-> task_id]
    /\ ret' = <<>>
    /\ IF current_user = None
       THEN /\ result' = "Not logged in"
            /\ io' = "none"
            /\ UNCHANGED <<tasks, tasksFile, pc>>
       ELSE IF task_id \notin DOMAIN tasks
       THEN /\ result' = "Task not found"
            /\ io' = "none"
            /\ UNCHANGED <<tasks, tasksFile, pc>>
       ELSE IF tasks[task_id].user_id # current_user
       THEN /\ result' = "Not authorized to delete this task"
            /\ io' = "none"
            /\ UNCHANGED <<tasks, tasksFile, pc>>
       ELSE \E outcome \in WriteOutcomes :
            /\ tasks' = Remove(tasks, task_id)
            /\ tasksFile' = save_tasks(tasks', tasksFile, outcome)
            /\ io' = outcome
            /\ pc' = unwrap(outcome).pc
            /\ result' = unwrap(outcome).result
    /\ UNCHANGED <<users, current_user, next_task_id, usersFile, issued>>

\* the orders in which a HashMap may yield the keys S
Orderings(S) ==
    {s \in [1..Cardinality(S) -> S] : \A i, j \in DOMAIN s : i # j => s[i] # s[j]}

\* list_tasks without the filter on task.user_id
list_tasks_unfiltered ==
    /\ pc = "running"
    /\ call' = [name |-> "list_tasks"]
    /\ io' = "none"
    /\ IF current_user = None
       THEN /\ result' = "Not logged in"
            /\ ret' = <<>>
       ELSE \E order \in Orderings(DOMAIN tasks) :
            /\ result' = "Ok"
            /\ ret' = [n \in DOMAIN order |-> tasks[order[n]]]
    /\ UNCHANGED <<tasks, users, current_user, next_task_id, tasksFile, usersFile, pc, issued>>

list_tasks ==
    /\ pc = "running"
    /\ call' = [name |-> "list_tasks"]
    /\ io' = "none"
    /\ IF current_user = None
       THEN /\ result' = "Not logged in"
            /\ ret' = <<>>
       ELSE \E order \in Orderings({i \in DOMAIN tasks :
                                       tasks[i].user_id = current_user}) :
            /\ result' = "Ok"
            /\ ret' = [n \in DOMAIN order |-> tasks[order[n]]]
    /\ UNCHANGED <<tasks, users, current_user, next_task_id, tasksFile, usersFile, pc, issued>>

\* The process ends (menu choice "3", a panic, or a kill) and is started
\* again: TodoApp::new(), load_tasks().unwrap(), load_users().unwrap().
main ==
    LET lt == load_tasks(tasksFile, EmptyMap, 1)
        lu == load_users(usersFile, EmptyMap)
    IN /\ call' = [name |-> "main"]
       /\ ret' = <<>>
       /\ io' = "none"
       /\ current_user' = None
       /\ IF ~lt.ok
          THEN /\ tasks' = EmptyMap
               /\ next_task_id' = 1
               /\ users' = EmptyMap
               /\ pc' = "aborted"
               /\ result' = "panic"
          ELSE /\ tasks' = lt.tasks
               /\ next_task_id' = lt.next_task_id
               /\ users' = lu.users
               /\ pc' = IF lu.ok THEN "running" ELSE "aborted"
               /\ result' = IF lu.ok THEN "Ok" ELSE "panic"
       /\ UNCHANGED <<tasksFile, usersFile, issued>>

Next ==
    \/ \E u \in Usernames, p \in Passwords : register(u, p)
    \/ \E u \in Usernames, p \in Passwords : login(u, p)
    \/ logout
    \/ \E tx \in TaskTexts, now \in ClockReadings : add_task(tx[1], tx[2], now)
    \/ \E id \in TaskIds : complete_task(id)
    \/ \E id \in TaskIds, tx \in TaskTexts : edit_task(id, tx[1], tx[2])
    \/ \E id \in TaskIds : delete_task(id)
    \/ list_tasks
    \/ main

Spec == Init /\ [][Next]_vars

\* ------------------------------------------------------------ vocabulary
\* the Err strings of the source, by the error kind the specification names
DuplicateAccount == "Username already exists"
InvalidCredentials == "Invalid username or password"
NotAuthenticated == "Not logged in"
TaskNotFound == "Task not found"
NotAuthorized == {"Not authorized to modify this task",
                  "Not authorized to delete this task"}

OwnerCheckedOps == {"complete_task", "edit_task", "delete_task"}
TaskMutators == {"add_task", "complete_task", "edit_task", "delete_task"}
TaskOps == TaskMutators \cup {"list_tasks"}
WriteFailed == io \in {"refused", "torn"}

\* ---------------------------------------------------------------- claims

\* C1: complete, edit or delete of an existing task whose owner is not the
\* active account fails with NotAuthorized and leaves the task map and the
\* tasks file exactly as they were.
C1_ForeignTaskUntouched ==
    [][\A id \in TaskIds :
          (/\ pc = "running"
           /\ current_user # None
           /\ id \in DOMAIN tasks
           /\ tasks[id].user_id # current_user
           /\ call'.name \in OwnerCheckedOps
           /\ call'.task_id = id)
          => (/\ result' \in NotAuthorized
              /\ tasks' = tasks
              /\ tasksFile' = tasksFile)]_vars

C1_Witness ==
    /\ call.name = "complete_task"
    /\ result \in NotAuthorized
    /\ current_user # None
    /\ call.task_id \in DOMAIN tasks
    /\ tasks[call.task_id].user_id # current_user
    /\ ~tasks[call.task_id].completed

\* C2: when a mutating operation has returned Ok, the file it saves holds
\* the full serialization of the map in memory: tasks.json after add,
\* complete, edit and delete, users.json after register.
C2_SnapshotIsMemory ==
    /\ (call.name \in TaskMutators /\ result = "Ok")
          => tasksFile = JsonFile(SerializeTasks(tasks))
    /\ (call.name = "register" /\ result = "Ok")
          => usersFile = JsonFile(SerializeUsers(users))

C2_Witness ==
    /\ call.name = "edit_task"
    /\ result = "Ok"
    /\ Cardinality(DOMAIN tasks) = 2
    /\ tasksFile = JsonFile(SerializeTasks(tasks))

\* C3: complete, edit and delete answer in a fixed order of precedence: no
\* active account gives NotAuthenticated; else an absent id gives
\* TaskNotFound; else a task of another account gives NotAuthorized; else
\* the operation goes through (Ok, or a panic exactly when its write failed).
C3_ErrorPrecedence ==
    [][\A id \in TaskIds :
          (/\ pc = "running"
           /\ call'.name \in OwnerCheckedOps
           /\ call'.task_id = id)
          => IF current_user = None THEN result' = NotAuthenticated
             ELSE IF id \notin DOMAIN tasks THEN result' = TaskNotFound
             ELSE IF tasks[id].user_id # current_user THEN result' \in NotAuthorized
             ELSE /\ io' # "none"
                  /\ result' = IF io' = "written" THEN "Ok" ELSE "panic"]_vars

C3_Witness ==
    /\ call.name = "delete_task"
    /\ result = TaskNotFound
    /\ current_user # None
    /\ call.task_id \notin DOMAIN tasks
    /\ \E i \in DOMAIN tasks : tasks[i].user_id # current_user

\* C4: with no active account, add, list, complete, edit and delete fail
\* with NotAuthenticated and change neither the store nor the files.
C4_NotAuthenticatedNoEffect ==
    [][(/\ pc = "running"
        /\ current_user = None
        /\ call'.name \in TaskOps)
       => (/\ result' = NotAuthenticated
           /\ UNCHANGED <<tasks, next_task_id, users, current_user,
                          tasksFile, usersFile>>)]_vars

C4_Witness ==
    /\ call.name = "add_task"
    /\ result = NotAuthenticated
    /\ current_user = None
    /\ next_task_id <= MaxId
    /\ tasks # EmptyMap

\* C5: no mutating operation returns Ok when its snapshot write failed: the
\* failure ends the operation (and the process) with a panic.
C5_FailedWriteNeverOk ==
    WriteFailed => (result = "panic" /\ pc = "crashed")

C5_Witness ==
    /\ WriteFailed
    /\ call.name = "add_task"
    /\ result = "panic"

\* C6: register of a username that is already present fails with
\* DuplicateAccount; the account map, the stored password included, and
\* users.json stay as they were.
C6_DuplicateRegisterNoEffect ==
    [][(/\ pc = "running"
        /\ call'.name = "register"
        /\ call'.username \in DOMAIN users)
       => (/\ result' = DuplicateAccount
           /\ users' = users
           /\ usersFile' = usersFile
           /\ io' = "none")]_vars

C6_Witness ==
    /\ call.name = "register"
    /\ result = DuplicateAccount
    /\ users[call.username].password # call.password

\* C7: login succeeds exactly when the username is registered with exactly
\* that password, and then the active account is that username; otherwise
\* it fails with the one InvalidCredentials error and the active account is
\* kept.  Accounts, tasks and both files are unchanged either way.
C7_LoginIffCredentialsMatch ==
    [][(pc = "running" /\ call'.name = "login")
       => LET u == call'.username
              p == call'.password
              match == u \in DOMAIN users /\ users[u].password = p
          IN /\ (result' = "Ok") <=> match
             /\ match => current_user' = u
             /\ ~match => (result' = InvalidCredentials
                           /\ current_user' = current_user)
             /\ UNCHANGED <<users, tasks, next_task_id, tasksFile, usersFile>>]_vars

C7_Witness ==
    /\ call.name = "login"
    /\ result = InvalidCredentials
    /\ call.username \in DOMAIN users
    /\ current_user \in Usernames
    /\ current_user # call.username

\* C8: a successful register inserts the account and saves the account map
\* but leaves the active account as it was; an empty slot is only ever
\* filled by a successful login.
C8_RegisterDoesNotAuthenticate ==
    [][/\ (pc = "running" /\ call'.name = "register" /\ result' = "Ok")
          => (/\ current_user' = current_user
              /\ call'.username \in DOMAIN users'
              /\ users'[call'.username].password = call'.password
              /\ usersFile' = JsonFile(SerializeUsers(users')))
       /\ (current_user = None /\ current_user' # None)
          => (call'.name = "login" /\ result' = "Ok")]_vars

C8_Witness ==
    /\ call.name = "register"
    /\ result = "Ok"
    /\ current_user = None
    /\ Cardinality(DOMAIN users) = 2

\* C9: with an active account, list returns every task of that account
\* exactly once and no task of any other account, and changes nothing.
C9_ListIsOwnTasks ==
    [][(/\ pc = "running"
        /\ current_user # None
        /\ call'.name = "list_tasks")
       => LET own == {i \in DOMAIN tasks : tasks[i].user_id = current_user}
          IN /\ result' = "Ok"
             /\ \A i \in own :
                   Cardinality({n \in DOMAIN ret' : ret'[n] = tasks[i]}) = 1
             /\ \A n \in DOMAIN ret' : ret'[n].user_id = current_user
             /\ Len(ret') = Cardinality(own)
             /\ UNCHANGED <<tasks, next_task_id, users, current_user,
                            tasksFile, usersFile>>]_vars

C9_Witness ==
    /\ call.name = "list_tasks"
    /\ result = "Ok"
    /\ Len(ret) = 1
    /\ Cardinality(DOMAIN tasks) = 2

Reloaded ==
    LET lt == load_tasks(tasksFile, EmptyMap, 1)
        lu == load_users(usersFile, EmptyMap)
    IN [ok |-> lt.ok /\ lu.ok, tasks |-> lt.tasks, users |-> lu.users,
        next_task_id |-> lt.next_task_id]

\* C11: in every state of the running store, a restart reloads a task map
\* equal element for element to the one in memory, an equal account map, and
\* a next id greater than every id of the reloaded task map.
C11_RoundTrip ==
    pc = "running"
       => /\ Reloaded.ok
          /\ Reloaded.tasks = tasks
          /\ Reloaded.users = users
          /\ \A i \in DOMAIN Reloaded.tasks : Reloaded.next_task_id > i

\* C12: logout always succeeds and empties the active-account slot whatever
\* it held, changing neither the maps nor the files; from then on the slot
\* stays empty, and every task operation fails with NotAuthenticated, until
\* a login succeeds.
C12_LogoutClearsSession ==
    [][/\ (pc = "running" /\ call'.name = "logout")
          => (/\ result' = "Ok"
              /\ current_user' = None
              /\ UNCHANGED <<tasks, users, next_task_id, tasksFile, usersFile>>)
       /\ (/\ pc = "running"
           /\ current_user = None
           /\ ~(call'.name = "login" /\ result' = "Ok"))
          => (/\ current_user' = None
              /\ call'.name \in TaskOps => result' = NotAuthenticated)]_vars

C12_Witness ==
    /\ call.name = "logout"
    /\ result = "Ok"
    /\ current_user = None
    /\ tasks # EmptyMap
    /\ tasksFile = JsonFile(SerializeTasks(tasks))

\* C13: a successful add by the active account A creates exactly one task,
\* under the id the counter held, which was no key of the map before; the
\* task has owner A, completed = false and the given title and description;
\* the counter grows by one and the tasks that were there are unchanged.
C13_AddCreatesOneFreshTask ==
    [][(pc = "running" /\ call'.name = "add_task" /\ result' = "Ok")
       => (/\ next_task_id \notin DOMAIN tasks
           /\ DOMAIN tasks' = DOMAIN tasks \cup {next_task_id}
           /\ \A i \in DOMAIN tasks : tasks'[i] = tasks[i]
           /\ \E now \in ClockReadings :
                 tasks'[next_task_id] =
                    Task(next_task_id, call'.title, call'.description, FALSE,
                         now, current_user)
           /\ current_user \in Usernames
           /\ next_task_id' = next_task_id + 1)]_vars

C13_Witness ==
    /\ call.name = "add_task"
    /\ result = "Ok"
    /\ Cardinality(DOMAIN tasks) = 2
    /\ tasks[next_task_id - 1].user_id = current_user
    /\ \E i \in DOMAIN tasks : tasks[i].user_id # current_user /\ tasks[i].completed

\* 1 + max(ids of the map), or 1 for the empty map
OnePlusMaxId(m) == IF DOMAIN m = {} THEN 1 ELSE MaxOf(DOMAIN m) + 1

\* C14 as claimed: in every state of the running store the next id to be
\* assigned is 1 + max(ids in the task map), or 1 if the map is empty.
C14_NextIdIsOnePlusMax ==
    pc = "running" => next_task_id = OnePlusMaxId(tasks)

\* C14, amended: the next id is greater than every id in the task map; it
\* is exactly 1 + max (1 if empty) after a startup load and after a
\* successful add, and a delete leaves the counter where it was.
C14_NextIdAboveAllIds ==
    pc = "running"
       => /\ \A i \in DOMAIN tasks : next_task_id > i
          /\ next_task_id >= OnePlusMaxId(tasks)
          /\ (call.name \in {"main", "add_task"} /\ result = "Ok")
                => next_task_id = OnePlusMaxId(tasks)

C14_Witness ==
    /\ pc = "running"
    /\ call.name = "delete_task"
    /\ result = "Ok"
    /\ tasks # EmptyMap
    /\ next_task_id > OnePlusMaxId(tasks)

\* C15: every successful add is assigned an id greater than the id of every
\* earlier successful add, across deletes and restarts: an id once assigned
\* is never assigned again.
C15_IdsNeverReused ==
    [][(pc = "running" /\ call'.name = "add_task" /\ result' = "Ok")
       => (issued' > issued /\ issued' = next_task_id)]_vars

\* C16: a successful edit replaces the title and the description of the one
\* task and nothing else: its id, owner, completed flag and created_at, all
\* other tasks, the set of ids, the counter, the accounts and the active
\* account are as before.
C16_EditOnlyTitleAndDescription ==
    [][\A id \in TaskIds :
          (/\ pc = "running"
           /\ call'.name = "edit_task"
           /\ call'.task_id = id
           /\ result' = "Ok")
          => (/\ id \in DOMAIN tasks
              /\ DOMAIN tasks' = DOMAIN tasks
              /\ tasks'[id].title = call'.title
              /\ tasks'[id].description = call'.description
              /\ tasks'[id].id = tasks[id].id
              /\ tasks'[id].user_id = tasks[id].user_id
              /\ tasks'[id].completed = tasks[id].completed
              /\ tasks'[id].created_at = tasks[id].created_at
              /\ \A i \in DOMAIN tasks \ {id} : tasks'[i] = tasks[i]
              /\ UNCHANGED <<next_task_id, users, current_user>>)]_vars

C16_Witness ==
    /\ call.name = "edit_task"
    /\ result = "Ok"
    /\ Cardinality(DOMAIN tasks) = 2
    /\ tasks[call.task_id].completed
    /\ tasks[call.task_id].created_at = 1
    /\ tasks[call.task_id].title = "T2"
    /\ tasks[call.task_id].description = "D2"

\* C17: a task's owner is the account that was active when it was created,
\* and no step changes the owner of a task that stays in the store: not
\* login, logout, complete, edit, an add or delete of another task, nor a
\* restart.
C17_OwnerNeverChanges ==
    [][/\ \A i \in (DOMAIN tasks) \cap (DOMAIN tasks') :
             tasks'[i].user_id = tasks[i].user_id
       /\ (pc = "running" /\ call'.name = "add_task" /\ result' = "Ok")
             => tasks'[next_task_id].user_id = current_user]_vars

C17_Witness ==
    /\ call.name = "main"
    /\ result = "Ok"
    /\ \E i, j \in DOMAIN tasks :
          /\ tasks[i].user_id = "alice"
          /\ tasks[j].user_id = "bob"
          /\ tasks[i].completed
          /\ tasks[j].title = "T2"

Unparsable(file) == file.present /\ ~file.valid

\* C18: at startup an absent file gives an empty map (and the counter 1 for
\* an absent tasks file) without error; a file that is there but does not
\* parse aborts the startup, and an aborted process executes no operation.
C18_StartupLoad ==
    [][/\ call'.name = "main"
          => (/\ ~tasksFile.present => (tasks' = EmptyMap /\ next_task_id' = 1)
              /\ ~usersFile.present => users' = EmptyMap
              /\ (Unparsable(tasksFile) \/ Unparsable(usersFile))
                    => (pc' = "aborted" /\ result' = "panic")
              /\ ~(Unparsable(tasksFile) \/ Unparsable(usersFile))
                    => (pc' = "running" /\ result' = "Ok")
              /\ UNCHANGED <<tasksFile, usersFile>>)
       /\ pc = "aborted" => call'.name = "main"]_vars

C18_Witness ==
    /\ pc = "aborted"
    /\ call.name = "main"
    /\ Unparsable(usersFile)
    /\ tasksFile.valid
    /\ tasks # EmptyMap

\* C19: starting from no files, in every state of a store that finished its
\* startup each task's owner is a registered username, and so is the active
\* account when there is one.  (A startup that panics on users.json leaves
\* no store: no operation runs on it, see C18.)
C19_OwnersAreRegistered ==
    pc # "aborted"
       => /\ \A i \in DOMAIN tasks : tasks[i].user_id \in DOMAIN users
          /\ current_user # None => current_user \in DOMAIN users

C19_Witness ==
    /\ pc = "running"
    /\ call.name = "main"
    /\ DOMAIN users = {"alice", "bob"}
    /\ \E i, j \in DOMAIN tasks :
          tasks[i].user_id = "alice" /\ tasks[j].user_id = "bob"

\* C20: no step of the running store takes the completed flag of a task
\* that stays in the store from true to false (edit, login, logout and
\* restart included), so a task stays completed once complete has returned
\* Ok; and complete on an own task that is already completed goes through,
\* leaving the task map as it was.
C20_CompletedIsMonotone ==
    [][/\ pc = "running"
          => \A i \in (DOMAIN tasks) \cap (DOMAIN tasks') :
                tasks[i].completed => tasks'[i].completed
       /\ \A id \in TaskIds :
             (/\ pc = "running"
              /\ call'.name = "complete_task"
              /\ call'.task_id = id
              /\ current_user # None
              /\ id \in DOMAIN tasks
              /\ tasks[id].user_id = current_user
              /\ tasks[id].completed)
             => (/\ tasks' = tasks
                 /\ result' = IF io' = "written" THEN "Ok" ELSE "panic")]_vars

C20_Witness ==
    /\ call.name = "complete_task"
    /\ result = "Ok"
    /\ tasksFile = JsonFile(SerializeTasks(tasks))
    /\ tasks[call.task_id].completed
    /\ tasks[call.task_id].created_at = 0
    /\ issued = next_task_id - 1
    /\ Cardinality(DOMAIN tasks) = 2

====
